---- MODULE Spec2Model ----
(***************************************************************************)
(* Model of src/app.py, the TGSPDCL executive dashboard: a Streamlit       *)
(* script that is rerun from its first line on every refresh.  It has the  *)
(* mock data generators (lines 159-277), the sidebar widgets (466-512),    *)
(* the TV block (532-582), the two Desktop tabs (588-825) and the          *)
(* auto-refresh tail (831-834).                                            *)
(*                                                                         *)
(* Numbers.  Python floats are modelled as fixed-point integers in         *)
(* hundredths: 68.0 is 6800, 4.5 is 450, the multiplier 1.10 is 110.  The  *)
(* containment fraction of get_daily_trends (0.68..0.78) is in hundredths  *)
(* too (68..78).  int(x) of a float is truncation; a quotient that is      *)
(* never truncated by the code (a percentage change, 'Containment Rate')   *)
(* is kept exact as a pair [num, den].  Binary floating-point rounding is  *)
(* not modelled.                                                           *)
(*                                                                         *)
(* Randomness.  A generator is an operator of the values it draws; the     *)
(* action that calls it chooses the draws.  The actions that model ONE     *)
(* call of a generator choose every draw independently from a sample of    *)
(* its range that contains both end points.  The script actions take the   *)
(* draws from the process-wide state of the random module (rng), which     *)
(* every draw advances and which survives a rerun of the script.           *)
(***************************************************************************)
EXTENDS Integers, Sequences, FiniteSets, TLC

VARIABLES
    display_mode,     \* st.radio "Display Mode" (475)
    date_option,      \* st.radio "Select period" (485)
    auto_refresh,     \* st.toggle "Auto Refresh (30s)" (501)
    custom_dates,     \* st.date_input "From" and "To" (494, 496)
    button,           \* st.button "Refresh Now" is pressed in this run (506)
    pc,               \* position of the script run
    trigger,          \* what started the current run
    run,              \* number of the current run, modulo MaxRuns
    slept,            \* seconds this run has spent in time.sleep (833)
    hour,             \* datetime.now().hour, as the current run reads it
    rng,              \* state of the process-wide random source
    invoked,          \* generator calls made by the current run, in order
    live_metrics,     \* locals of the script, gone when a run starts
    language_dist,
    top_intents,
    hourly_data,
    kpis,
    daily_trends,
    resolution_data,
    cards,            \* values of the "Today vs Yesterday" cards (728-770)
    charts,           \* charts of the Performance tab's chart rows (776-825)
    locals            \* draws and intermediate values of the last generator call

widgets == <<display_mode, date_option, auto_refresh, custom_dates>>
results == <<live_metrics, language_dist, top_intents, hourly_data, kpis,
             daily_trends, resolution_data, cards, charts>>
control == <<button, pc, trigger, run, slept, invoked>>
vars == <<display_mode, date_option, auto_refresh, custom_dates, button, pc,
          trigger, run, slept, hour, rng, invoked, live_metrics,
          language_dist, top_intents, hourly_data, kpis, daily_trends,
          resolution_data, cards, charts, locals>>

(***************************************************************************)
(* Bounds of the model.                                                    *)
(***************************************************************************)
\* A sampled draw takes Coarse + 1 values of its range, end points included.
Coarse == 2
\* The language shares take Fine + 1 values each.
Fine == 10
\* get_daily_trends is called on its own with days in 1..MaxDays.
MaxDays == 3
\* Script runs are numbered modulo MaxRuns.
MaxRuns == 3

\* Python's None: a local that holds no value.
None == [none |-> TRUE]

\* n + 1 values of the closed range a..b, both end points among them.
Sample(a, b, n) == {a + ((b - a) * k) \div n : k \in 0..n}

\* The value in a..b that the random source yields in state s.
Pick(a, b, s) == a + ((b - a) * (s % (Coarse + 1))) \div Coarse

\* The random source after n draws from state s.
Advance(s, n) == (s + n) % (Coarse + 1)

\* int(num / den) for den > 0: truncation towards zero.
PyInt(num, den) ==
    IF num >= 0 THEN num \div den ELSE -((-num) \div den)

\* An exact quotient num / den.
Ratio(n, d) == [num |-> n, den |-> d]

\* `9 <= hour <= 18`, the business-hours test of lines 165 and 231.
BusinessHourUntil17(h) == 9 <= h /\ h < 18
IsBusinessHour(h) == 9 <= h /\ h <= 18

(***************************************************************************)
(* get_live_metrics (159-177).  d holds the seven draws in the order the   *)
(* code makes them; d.u is random.uniform(0.1, 0.3) in a business hour and *)
(* random.uniform(0.1, 0.2) otherwise.  85 is in the sample of d.r so that *)
(* r * multiplier is not always whole.                                     *)
(***************************************************************************)
LiveDraws(h) ==
    [base : Sample(-200, 200, Coarse),
     u    : IF IsBusinessHour(h) THEN Sample(10, 30, Coarse)
                                 ELSE Sample(10, 20, Coarse),
     r    : Sample(80, 180, Coarse) \cup {85},
     queue : Sample(5, 35, Coarse),
     cap  : Sample(4500, 8500, 1),
     wait : Sample(800, 4500, 1),
     cph  : Sample(200, 450, 1)]

LiveDrawsRng(h, s) ==
    [base |-> Pick(-200, 200, s),
     u    |-> IF IsBusinessHour(h) THEN Pick(10, 30, s + 1)
                                   ELSE Pick(10, 20, s + 1),
     r    |-> Pick(80, 180, s + 2),
     queue |-> Pick(5, 35, s + 3),
     cap  |-> Pick(4500, 8500, s + 4),
     wait |-> Pick(800, 4500, s + 5),
     cph  |-> Pick(200, 450, s + 6)]

Multiplier(h, u) == IF IsBusinessHour(h) THEN 100 + u ELSE 40 + u

ActiveCallsRounded(r, m) == (r * m + 50) \div 100
ActiveCalls(r, m) == PyInt(r * m, 100)

get_live_metrics(h, d) ==
    LET base_calls == 4500 + d.base
        multiplier == Multiplier(h, d.u)
    IN  [active_calls |-> ActiveCalls(d.r, multiplier),
         calls_today |-> PyInt(base_calls * multiplier, 100),
         calls_queue |-> d.queue,
         capacity_utilization |-> d.cap,
         avg_wait_time |-> d.wait,
         calls_per_hour |-> d.cph]

LiveLocals(h, d) ==
    [fn |-> "get_live_metrics", hour |-> h, base_calls |-> 4500 + d.base,
     multiplier |-> Multiplier(h, d.u), r |-> d.r]

(***************************************************************************)
(* get_language_distribution (179-193).                                    *)
(***************************************************************************)
LanguageDraws ==
    [telugu : Sample(5200, 6200, Fine), hindi : Sample(2200, 3000, Fine)]

LanguageDrawsRng(s) ==
    [telugu |-> Pick(5200, 6200, s), hindi |-> Pick(2200, 3000, s + 1)]

EnglishPctOfTelugu(telugu_pct, hindi_pct) == 10000 - telugu_pct
EnglishPct(telugu_pct, hindi_pct) == 10000 - telugu_pct - hindi_pct

get_language_distribution(d) ==
    LET telugu_pct == d.telugu
        hindi_pct == d.hindi
        english_pct == EnglishPct(telugu_pct, hindi_pct)
    IN  << [Language |-> "Telugu", Percentage |-> telugu_pct,
            Calls |-> PyInt(4500 * telugu_pct, 10000)],
           [Language |-> "Hindi", Percentage |-> hindi_pct,
            Calls |-> PyInt(4500 * hindi_pct, 10000)],
           [Language |-> "English", Percentage |-> english_pct,
            Calls |-> PyInt(4500 * english_pct, 10000)] >>

(***************************************************************************)
(* get_top_intents (195-204): five (intent, count) rows in a fixed order.  *)
(***************************************************************************)
IntentDraws ==
    [bill : Sample(800, 1200, Coarse), outage : Sample(600, 900, Coarse),
     payment : Sample(400, 600, Coarse), complaint : Sample(300, 500, Coarse),
     connection : Sample(200, 400, Coarse)]

IntentDrawsRng(s) ==
    [bill |-> Pick(800, 1200, s), outage |-> Pick(600, 900, s + 1),
     payment |-> Pick(400, 600, s + 2), complaint |-> Pick(300, 500, s + 3),
     connection |-> Pick(200, 400, s + 4)]

get_top_intents(d) ==
    << [Intent |-> "Bill Inquiry", Count |-> d.bill],
       [Intent |-> "Outage Status", Count |-> d.outage],
       [Intent |-> "Payment Confirmation", Count |-> d.payment],
       [Intent |-> "Complaint Status", Count |-> d.complaint],
       [Intent |-> "New Connection", Count |-> d.connection] >>

(***************************************************************************)
(* get_performance_kpis (206-220).  The ranges of the eight draws, in the  *)
(* order of the dict; 7200 and 5000 are added to the samples of            *)
(* containment_rate and calls_today as round values of interest.           *)
(***************************************************************************)
YesterdayRangesAsToday ==
    [containment_yesterday |-> <<6800, 7800>>,
     fcr_yesterday |-> <<6500, 7500>>,
     aht_yesterday |-> <<450, 750>>]
YesterdayRanges ==
    [containment_yesterday |-> <<6500, 7500>>,
     fcr_yesterday |-> <<6200, 7200>>,
     aht_yesterday |-> <<500, 800>>]

\* random.randint(4000, 5500): calls_today (215) and calls_yesterday (216)
CallsRangeFromZero == <<0, 5500>>
CallsRange == <<4000, 5500>>

TodayRangesWide ==
    [containment_rate |-> <<6500, 7800>>,
     fcr_rate |-> <<6500, 7500>>,
     avg_handle_time |-> <<450, 800>>]
TodayRanges ==
    [containment_rate |-> <<6800, 7800>>,
     fcr_rate |-> <<6500, 7500>>,
     avg_handle_time |-> <<450, 750>>]

KpiDraws ==
    [containment_rate :
         Sample(TodayRanges.containment_rate[1],
                TodayRanges.containment_rate[2], Coarse) \cup {7200},
     fcr_rate :
         Sample(TodayRanges.fcr_rate[1], TodayRanges.fcr_rate[2], 1),
     avg_handle_time :
         Sample(TodayRanges.avg_handle_time[1],
                TodayRanges.avg_handle_time[2], 1),
     calls_today : Sample(CallsRange[1], CallsRange[2], Coarse) \cup {5000},
     calls_yesterday : Sample(CallsRange[1], CallsRange[2], Coarse),
     containment_yesterday :
         Sample(YesterdayRanges.containment_yesterday[1],
                YesterdayRanges.containment_yesterday[2], Coarse),
     fcr_yesterday :
         Sample(YesterdayRanges.fcr_yesterday[1],
                YesterdayRanges.fcr_yesterday[2], 1),
     aht_yesterday :
         Sample(YesterdayRanges.aht_yesterday[1],
                YesterdayRanges.aht_yesterday[2], 1)]

KpiDrawsRng(s) ==
    [containment_rate |->
         Pick(TodayRanges.containment_rate[1],
              TodayRanges.containment_rate[2], s),
     fcr_rate |->
         Pick(TodayRanges.fcr_rate[1], TodayRanges.fcr_rate[2], s + 1),
     avg_handle_time |->
         Pick(TodayRanges.avg_handle_time[1],
              TodayRanges.avg_handle_time[2], s + 2),
     calls_today |-> Pick(CallsRange[1], CallsRange[2], s + 3),
     calls_yesterday |-> Pick(CallsRange[1], CallsRange[2], s + 4),
     containment_yesterday |->
         Pick(YesterdayRanges.containment_yesterday[1],
              YesterdayRanges.containment_yesterday[2], s + 5),
     fcr_yesterday |->
         Pick(YesterdayRanges.fcr_yesterday[1],
              YesterdayRanges.fcr_yesterday[2], s + 6),
     aht_yesterday |->
         Pick(YesterdayRanges.aht_yesterday[1],
              YesterdayRanges.aht_yesterday[2], s + 7)]

KpiTargetsAht12 ==
    [containment_target |-> 7000, fcr_target |-> 7000, aht_target |-> 1200]
KpiTargets ==
    [containment_target |-> 7000, fcr_target |-> 7000, aht_target |-> 800]

get_performance_kpis(d) ==
    [containment_rate |-> d.containment_rate,
     containment_target |-> KpiTargets.containment_target,
     fcr_rate |-> d.fcr_rate,
     fcr_target |-> KpiTargets.fcr_target,
     avg_handle_time |-> d.avg_handle_time,
     aht_target |-> KpiTargets.aht_target,
     calls_today |-> d.calls_today,
     calls_yesterday |-> d.calls_yesterday,
     containment_yesterday |-> d.containment_yesterday,
     fcr_yesterday |-> d.fcr_yesterday,
     aht_yesterday |-> d.aht_yesterday]

(***************************************************************************)
(* The "Today vs Yesterday" cards of the Performance tab (728-770).  The   *)
(* four percentage changes are exact quotients.  The Total Calls change    *)
(* (729) divides without a test of its denominator, so Python raises       *)
(* ZeroDivisionError there when calls_yesterday is 0 and the run ends      *)
(* before any card is rendered; the other three (740, 751, 764) are        *)
(* guarded by `if ... > 0 else 0`.                                         *)
(***************************************************************************)
Zero == Ratio(0, 1)

\* ((today - yesterday) / yesterday) * 100
PctChange(today, yesterday) == Ratio((today - yesterday) * 100, yesterday)

\* ... if yesterday > 0 else 0
GuardedPctChange(today, yesterday) ==
    IF yesterday > 0 THEN PctChange(today, yesterday) ELSE Zero

\* int(calls * rate / 100), rate in hundredths
AiResolvedCeil(calls, rate) == (calls * rate + 9999) \div 10000
AiResolved(calls, rate) == PyInt(calls * rate, 10000)

\* Rupees saved per AI-resolved call (762).
SavingsPerCall == 50

KpiCards(k) ==
    IF k.calls_yesterday = 0
    THEN [error |-> "ZeroDivisionError"]
    ELSE
    LET ai_resolved == AiResolved(k.calls_today, k.containment_rate)
        ai_yesterday == AiResolved(k.calls_yesterday, k.containment_yesterday)
        escalated == k.calls_today - AiResolved(k.calls_today, k.containment_rate)
        esc_yesterday ==
            k.calls_yesterday
                - AiResolved(k.calls_yesterday, k.containment_yesterday)
        savings == ai_resolved * SavingsPerCall
        savings_yesterday == ai_yesterday * SavingsPerCall
    IN  [error |-> "",
         calls_today |-> k.calls_today,
         calls_change |-> PctChange(k.calls_today, k.calls_yesterday),
         ai_resolved |-> ai_resolved,
         ai_yesterday |-> ai_yesterday,
         ai_change |-> GuardedPctChange(ai_resolved, ai_yesterday),
         escalated |-> escalated,
         esc_yesterday |-> esc_yesterday,
         esc_change |-> GuardedPctChange(escalated, esc_yesterday),
         savings |-> savings,
         savings_yesterday |-> savings_yesterday,
         savings_change |-> GuardedPctChange(savings, savings_yesterday)]

(***************************************************************************)
(* get_hourly_call_volume (222-244).  noise[h] is the random.randint the   *)
(* loop draws for hour h (in 'today' mode only the hours up to the current *)
(* one draw).  The 'Hour' label f'{h:02d}:00' is modelled by its two       *)
(* digits.                                                                 *)
(***************************************************************************)
HourlyNoise(lo, hi) ==
    {[h \in 0..23 |-> Pick(lo, hi, s + t * h)] : s \in 0..Coarse, t \in 0..Coarse}

HourlyNoiseRng(lo, hi, s) == [h \in 0..23 |-> Pick(lo, hi, s + h)]

NoiseRange(date_range) ==
    IF date_range = "today" THEN <<-30, 50>> ELSE <<-50, 80>>

HourLabel(h) == <<h \div 10, h % 10>>

\* `h <= current_hour` (230)
ElapsedThroughNext(h, current_hour) == h <= current_hour + 1
Elapsed(h, current_hour) == h <= current_hour

HourVolume(date_range, h, current_hour, noise) ==
    IF date_range = "today"
    THEN IF Elapsed(h, current_hour)
         THEN (IF IsBusinessHour(h) THEN 150 ELSE 50) + noise[h]
         ELSE 0
    ELSE (IF IsBusinessHour(h) THEN 350 ELSE 100) + noise[h]

get_hourly_call_volume(date_range, current_hour, noise) ==
    [k \in 1..24 |->
        [Hour |-> HourLabel(k - 1),
         Calls |-> HourVolume(date_range, k - 1, current_hour, noise)]]

(***************************************************************************)
(* get_daily_trends (246-264).  d[k] holds the two draws of the k-th loop  *)
(* iteration.  The list comprehension of line 248 evaluates datetime.now() *)
(* once per element, for i = days-1, ..., 0, and subtracts i days from     *)
(* that reading.  A date is kept as a day number: 0 is the day on which    *)
(* the call starts, -1 the day before, 1 the day after.  '%Y-%m-%d' is     *)
(* zero padded, so the strings order as the day numbers do and two strings *)
(* are equal exactly when the day numbers are.  now[k] is the day of the   *)
(* k-th reading of the clock.                                              *)
(***************************************************************************)
\* The readings of one call: the first falls on day 0, and the call is far
\* shorter than a day, so midnight passes at most once between two of them.
\* m is the number of readings taken before midnight.
ClockReads(days) ==
    {[k \in 1..days |-> IF k <= m THEN 0 ELSE 1] : m \in 1..days}

\* All readings of a call on the day it starts.
SameDay(days) == [k \in 1..days |-> 0]

\* 5501 is in the sample so that total * frac is not always whole.
TrendDraw ==
    [total : Sample(5500, 7500, Coarse) \cup {5501}, frac : Sample(68, 78, Coarse)]

TrendDraws(days) == [1..days -> TrendDraw]

TrendDrawsRng(days, s) ==
    [k \in 1..days |->
        [total |-> Pick(5500, 7500, s + 2 * k), frac |-> Pick(68, 78, s + 2 * k + 1)]]

\* contained = int(total * random.uniform(0.68, 0.78))
Contained(total, frac) == PyInt(total * frac, 100)

\* escalated = total - contained
EscalatedFromRate(total, frac, contained) == PyInt(total * (100 - frac), 100)
Escalated(total, frac, contained) == total - contained

DailyEntry(date, total, frac) ==
    LET contained == Contained(total, frac)
        escalated == Escalated(total, frac, contained)
    IN  [Date |-> date,
         TotalCalls |-> total,
         AIResolved |-> contained,
         Escalated |-> escalated,
         ContainmentRate |-> Ratio(contained * 100, total)]

get_daily_trends(days, d, now) ==
    [k \in 1..days |->
        DailyEntry(now[k] - (days - k), d[k].total, d[k].frac)]

(***************************************************************************)
(* get_resolution_breakdown (266-277).                                     *)
(***************************************************************************)
ResolutionDraws ==
    [ai : Sample(3000, 4000, Coarse), human : Sample(800, 1200, Coarse),
     abandoned : Sample(100, 200, Coarse), transferred : Sample(50, 150, Coarse)]

ResolutionDrawsRng(s) ==
    [ai |-> Pick(3000, 4000, s), human |-> Pick(800, 1200, s + 1),
     abandoned |-> Pick(100, 200, s + 2), transferred |-> Pick(50, 150, s + 3)]

get_resolution_breakdown(d) ==
    << [Category |-> "AI Resolved", Count |-> d.ai],
       [Category |-> "Human Escalation", Count |-> d.human],
       [Category |-> "Abandoned", Count |-> d.abandoned],
       [Category |-> "Transferred", Count |-> d.transferred] >>

(***************************************************************************)
(* The state after the imports and before the first line of the first run: *)
(* the widgets hold their defaults (the first option of each radio, the    *)
(* toggle's value=True), no local is bound, the clock and the random       *)
(* source are in any state.                                                *)
(***************************************************************************)
\* The values the two date inputs are created with (494, 496), and a range
\* the user can choose instead; a date is kept as days before today.
DefaultDates == [start |-> 7, end |-> 0]
CustomRanges == {DefaultDates, [start |-> 2, end |-> 1]}

Init ==
    /\ display_mode = "Desktop"
    /\ date_option = "Today"
    /\ auto_refresh = TRUE
    /\ custom_dates = DefaultDates
    /\ button = FALSE
    /\ pc = "sidebar"
    /\ trigger = "initial"
    /\ run = 0
    /\ slept = 0
    /\ hour \in 0..23
    /\ rng \in 0..Coarse
    /\ invoked = << >>
    /\ live_metrics = None
    /\ language_dist = << >>
    /\ top_intents = << >>
    /\ hourly_data = << >>
    /\ kpis = None
    /\ daily_trends = << >>
    /\ resolution_data = << >>
    /\ cards = None
    /\ charts = {}
    /\ locals = None

(***************************************************************************)
(* One call of one generator on its own, with draws chosen freely from the *)
(* samples.  A behaviour makes one such call (locals = None before it).    *)
(* The draws are free, so the state of the random source plays no part     *)
(* (InitCall); a generator that does not read the clock is called at one   *)
(* hour (InitCallNoClock).                                                 *)
(***************************************************************************)
InitCall == Init /\ rng = 0
InitCallNoClock == InitCall /\ hour = 0

CallGetLiveMetrics ==
    /\ locals = None
    /\ \E d \in LiveDraws(hour) :
        /\ live_metrics' = get_live_metrics(hour, d)
        /\ locals' = LiveLocals(hour, d)
        /\ UNCHANGED <<widgets, control, hour, rng, language_dist, top_intents,
                       hourly_data, kpis, daily_trends, resolution_data,
                       cards, charts>>

CallGetLanguageDistribution ==
    /\ locals = None
    /\ \E d \in LanguageDraws :
        /\ language_dist' = get_language_distribution(d)
        /\ locals' = [fn |-> "get_language_distribution", d |-> d]
        /\ UNCHANGED <<widgets, control, hour, rng, live_metrics, top_intents,
                       hourly_data, kpis, daily_trends, resolution_data,
                       cards, charts>>

CallGetTopIntents ==
    /\ locals = None
    /\ \E d \in IntentDraws :
        /\ top_intents' = get_top_intents(d)
        /\ locals' = [fn |-> "get_top_intents", d |-> d]
        /\ UNCHANGED <<widgets, control, hour, rng, live_metrics, language_dist,
                       hourly_data, kpis, daily_trends, resolution_data,
                       cards, charts>>

CallGetPerformanceKpis ==
    /\ locals = None
    /\ \E d \in KpiDraws :
        /\ kpis' = get_performance_kpis(d)
        /\ cards' = None
        /\ locals' = [fn |-> "get_performance_kpis", d |-> d]
        /\ UNCHANGED <<widgets, control, hour, rng, live_metrics, language_dist,
                       top_intents, hourly_data, daily_trends, resolution_data,
                       charts>>

\* Lines 728-770 applied to the KPI snapshot at hand.
RenderKpiCards ==
    /\ kpis # None
    /\ cards = None
    /\ cards' = KpiCards(kpis)
    /\ UNCHANGED <<widgets, control, hour, rng, live_metrics, language_dist,
                   top_intents, hourly_data, kpis, daily_trends,
                   resolution_data, charts, locals>>

CallGetHourlyCallVolume ==
    /\ locals = None
    /\ \E date_range \in {"today", "yesterday"} :
        \E noise \in HourlyNoise(NoiseRange(date_range)[1], NoiseRange(date_range)[2]) :
            /\ hourly_data' = get_hourly_call_volume(date_range, hour, noise)
            /\ locals' = [fn |-> "get_hourly_call_volume",
                          date_range |-> date_range, current_hour |-> hour]
            /\ UNCHANGED <<widgets, control, hour, rng, live_metrics,
                           language_dist, top_intents, kpis, daily_trends,
                           resolution_data, cards, charts>>

CallGetDailyTrends ==
    /\ locals = None
    /\ \E days \in 1..MaxDays :
        \E d \in TrendDraws(days), now \in ClockReads(days) :
            /\ daily_trends' = get_daily_trends(days, d, now)
            /\ locals' = [fn |-> "get_daily_trends", days |-> days, d |-> d,
                          now |-> now]
            /\ UNCHANGED <<widgets, control, hour, rng, live_metrics,
                           language_dist, top_intents, hourly_data, kpis,
                           resolution_data, cards, charts>>

CallGetResolutionBreakdown ==
    /\ locals = None
    /\ \E d \in ResolutionDraws :
        /\ resolution_data' = get_resolution_breakdown(d)
        /\ locals' = [fn |-> "get_resolution_breakdown", d |-> d]
        /\ UNCHANGED <<widgets, control, hour, rng, live_metrics, language_dist,
                       top_intents, hourly_data, kpis, daily_trends, cards,
                       charts>>

SpecLive == InitCall /\ [][CallGetLiveMetrics]_vars
SpecLang == InitCallNoClock /\ [][CallGetLanguageDistribution]_vars
SpecIntents == InitCallNoClock /\ [][CallGetTopIntents]_vars
NextKpi == CallGetPerformanceKpis \/ RenderKpiCards
SpecKpi == InitCallNoClock /\ [][NextKpi]_vars
SpecHourly == InitCall /\ [][CallGetHourlyCallVolume]_vars
SpecTrends == InitCallNoClock /\ [][CallGetDailyTrends]_vars
SpecResolution == InitCallNoClock /\ [][CallGetResolutionBreakdown]_vars

(***************************************************************************)
(* The card expressions of lines 728-770 on operands of any size: the      *)
(* snapshots of InitPct include baselines of 0 and rates of 0 and 100,     *)
(* which get_performance_kpis never draws (its calls_yesterday is at least *)
(* 4000).  SpecPct evaluates the expressions themselves there.             *)
(***************************************************************************)
PctOperands ==
    [calls_today : {0, 1, 4000, 5000},
     calls_yesterday : {0, 1, 4000, 5500},
     containment_rate : {0, 6800, 10000},
     containment_yesterday : {0, 6500, 10000}]

InitPct ==
    /\ display_mode = "Desktop"
    /\ date_option = "Today"
    /\ auto_refresh = TRUE
    /\ custom_dates = DefaultDates
    /\ button = FALSE
    /\ pc = "sidebar"
    /\ trigger = "initial"
    /\ run = 0
    /\ slept = 0
    /\ hour = 0
    /\ rng = 0
    /\ invoked = << >>
    /\ live_metrics = None
    /\ language_dist = << >>
    /\ top_intents = << >>
    /\ hourly_data = << >>
    /\ kpis \in PctOperands
    /\ daily_trends = << >>
    /\ resolution_data = << >>
    /\ cards = None
    /\ charts = {}
    /\ locals = [fn |-> "operands"]

SpecPct == InitPct /\ [][RenderKpiCards]_vars

(***************************************************************************)
(* The script.  Streamlit runs app.py from its first line for every run    *)
(* and keeps the widget values and the process (hence the random source)   *)
(* between runs; the script's own names are bound anew by each run.  A run *)
(* is started by the first page load, by a widget event or by st.rerun().  *)
(* Widget events are taken while the script sleeps or has ended.  The body *)
(* of the script runs in negligible time and only a run reads the clock,   *)
(* so the clock is moved where a run starts: by at most one hour after a   *)
(* sleep or an immediate rerun, by any amount once the script has ended;   *)
(* all readings of a run fall on one day.  The date inputs are created     *)
(* anew, with their defaults, by the run that follows a change of the      *)
(* period.                                                                 *)
(***************************************************************************)
\* time.sleep(30)
SleepSeconds == 30

\* The hours a run can start in.
HoursLater == IF pc = "idle" THEN 0..23 ELSE {hour, (hour + 1) % 24}

\* A new run: the names of the previous run are gone.
StartRunKeepsValues(why) ==
    /\ pc' = "sidebar"
    /\ hour' \in HoursLater
    /\ trigger' = why
    /\ run' = (run + 1) % MaxRuns
    /\ slept' = 0
    /\ invoked' = << >>
    /\ locals' = None
    /\ UNCHANGED results
StartRun(why) ==
    /\ pc' = "sidebar"
    /\ hour' \in HoursLater
    /\ trigger' = why
    /\ run' = (run + 1) % MaxRuns
    /\ slept' = 0
    /\ invoked' = << >>
    /\ live_metrics' = None
    /\ language_dist' = << >>
    /\ top_intents' = << >>
    /\ hourly_data' = << >>
    /\ kpis' = None
    /\ daily_trends' = << >>
    /\ resolution_data' = << >>
    /\ cards' = None
    /\ charts' = {}
    /\ locals' = None

\* `if st.button("Refresh Now"): st.rerun()` (506-507)
ButtonIgnored(pressed) == FALSE
ButtonReruns(pressed) == pressed

\* The sidebar (466-512): the widgets are read; a pressed button ends the
\* run at line 507 and starts the next one, in which it reads False.
Sidebar ==
    /\ pc = "sidebar"
    /\ IF ButtonReruns(button)
       THEN /\ StartRun(trigger)
            /\ button' = FALSE
            /\ UNCHANGED <<widgets, rng>>
       ELSE /\ pc' = "main"
            /\ button' = FALSE
            /\ UNCHANGED <<widgets, trigger, run, slept, hour, rng, invoked,
                           results, locals>>

\* The TV block (532-582).
TvDisplay ==
    /\ pc = "main"
    /\ display_mode = "TV Display"
    /\ LET dl == LiveDrawsRng(hour, rng)
           s1 == Advance(rng, 7)
           dk == KpiDrawsRng(s1)
       IN  /\ live_metrics' = get_live_metrics(hour, dl)
           /\ kpis' = get_performance_kpis(dk)
           /\ rng' = Advance(s1, 8)
           /\ locals' = [fn |-> "get_performance_kpis", d |-> dk]
    /\ invoked' = << <<"get_live_metrics", "">>, <<"get_performance_kpis", "">> >>
    /\ pc' = "tail"
    /\ UNCHANGED <<widgets, button, trigger, run, slept, hour, language_dist,
                   top_intents, hourly_data, daily_trends, resolution_data,
                   cards, charts>>

\* Tab 1, Live Operations (595-667): three generators, the three
\* random.randint deltas of the metric cards (610, 618, 626), then the
\* hourly volume of today, which draws once per elapsed hour.
Tab1 ==
    /\ pc = "main"
    /\ display_mode = "Desktop"
    /\ LET dl == LiveDrawsRng(hour, rng)
           s1 == Advance(rng, 7)
           dg == LanguageDrawsRng(s1)
           s2 == Advance(s1, 2)
           di == IntentDrawsRng(s2)
           s3 == Advance(s2, 5)
           s4 == Advance(s3, 3)
           noise == HourlyNoiseRng(-30, 50, s4)
       IN  /\ live_metrics' = get_live_metrics(hour, dl)
           /\ language_dist' = get_language_distribution(dg)
           /\ top_intents' = get_top_intents(di)
           /\ hourly_data' = get_hourly_call_volume("today", hour, noise)
           /\ rng' = Advance(s4, hour + 1)
           /\ locals' = [fn |-> "get_hourly_call_volume",
                         date_range |-> "today", current_hour |-> hour]
    /\ invoked' = << <<"get_live_metrics", "">>,
                     <<"get_language_distribution", "">>,
                     <<"get_top_intents", "">>,
                     <<"get_hourly_call_volume", "today">> >>
    /\ pc' = "tab2"
    /\ UNCHANGED <<widgets, button, trigger, run, slept, hour, kpis,
                   daily_trends, resolution_data, cards, charts>>

\* get_daily_trends(7 if "Last 7 Days" else 30 if "Custom Range" else 1) (675)
DaysForAlways7(option) == 7
DaysFor(option) ==
    IF option = "Last 7 Days" THEN 7
    ELSE IF option = "Custom Range" THEN 30 ELSE 1

\* Tab 2, Performance KPIs (672-825): three generators, the cards, and the
\* hourly volume once more when the trend has a single day (779-785).  An
\* exception of the cards ends the run.
\* The chart rows of the tab (776-825): three charts of the daily trend when
\* it has more than one row, else the hourly line and the resolution donut.
TrendCharts(trend) ==
    IF Len(trend) > 1
    THEN {"Call Volume Trend: daily line", "Resolution Breakdown: daily area",
          "Containment Rate Trend"}
    ELSE {"Call Volume Trend: hourly line", "Resolution Breakdown: donut"}

Tab2Calls(days) ==
    << <<"get_performance_kpis", "">>,
       <<"get_daily_trends", days>>,
       <<"get_resolution_breakdown", "">> >>

Tab2 ==
    /\ pc = "tab2"
    /\ LET dk == KpiDrawsRng(rng)
           s1 == Advance(rng, 8)
           days == DaysFor(date_option)
           s2 == Advance(s1, 2 * days)
           dr == ResolutionDrawsRng(s2)
           s3 == Advance(s2, 4)
       IN  /\ kpis' = get_performance_kpis(dk)
           /\ daily_trends' =
                get_daily_trends(days, TrendDrawsRng(days, s1), SameDay(days))
           /\ resolution_data' = get_resolution_breakdown(dr)
           /\ cards' = KpiCards(kpis')
           /\ charts' = IF cards'.error = "" THEN TrendCharts(daily_trends')
                                              ELSE {}
           /\ IF cards'.error = "" /\ Len(daily_trends') <= 1
              THEN /\ hourly_data' =
                        get_hourly_call_volume("today", hour,
                            HourlyNoiseRng(-30, 50, s3))
                   /\ rng' = Advance(s3, hour + 1)
                   /\ invoked' = invoked \o Tab2Calls(days)
                        \o << <<"get_hourly_call_volume", "today">> >>
                   /\ locals' = [fn |-> "get_hourly_call_volume",
                                 date_range |-> "today", current_hour |-> hour]
              ELSE /\ hourly_data' = hourly_data
                   /\ rng' = s3
                   /\ invoked' = invoked \o Tab2Calls(days)
                   /\ locals' = [fn |-> "get_resolution_breakdown", d |-> dr]
           /\ pc' = IF cards'.error = "" THEN "tail" ELSE "idle"
    /\ UNCHANGED <<widgets, button, trigger, run, slept, hour, live_metrics,
                   language_dist, top_intents>>

\* `if auto_refresh:` (831): sleep, or the script ends.
AfterRenderAlwaysSleeps(flag) == "sleep"
AfterRenderNeverSleeps(flag) == "idle"
AfterRender(flag) == IF flag THEN "sleep" ELSE "idle"

AutoRefresh ==
    /\ pc = "tail"
    /\ pc' = AfterRender(auto_refresh)
    /\ slept' = 0
    /\ UNCHANGED <<widgets, button, trigger, run, hour, rng, invoked, results,
                   locals>>

\* time.sleep(30) returns (833): the script has blocked for its seconds.
SleepReturns ==
    /\ pc = "sleep"
    /\ slept' = slept + SleepSeconds
    /\ pc' = "rerun"
    /\ UNCHANGED <<widgets, button, trigger, run, hour, rng, invoked, results,
                   locals>>

\* st.rerun() after the sleep (834).
SleepRerun ==
    /\ pc = "rerun"
    /\ StartRun("auto")
    /\ UNCHANGED <<widgets, button, rng>>

\* The user.
Waiting == pc \in {"sleep", "idle"}

ClickRefreshNow ==
    /\ Waiting
    /\ button' = TRUE
    /\ StartRun("manual")
    /\ UNCHANGED <<widgets, rng>>

SelectDisplayMode ==
    /\ Waiting
    /\ \E m \in {"Desktop", "TV Display"} \ {display_mode} : display_mode' = m
    /\ StartRun("widget")
    /\ UNCHANGED <<date_option, auto_refresh, custom_dates, button, rng>>

SelectDateOption ==
    /\ Waiting
    /\ \E o \in {"Today", "Last 7 Days", "Custom Range"} \ {date_option} :
           date_option' = o
    /\ custom_dates' = DefaultDates
    /\ StartRun("widget")
    /\ UNCHANGED <<display_mode, auto_refresh, button, rng>>

\* The date inputs exist while "Custom Range" is selected (491-496).
SelectCustomDates ==
    /\ Waiting
    /\ date_option = "Custom Range"
    /\ \E r \in CustomRanges \ {custom_dates} : custom_dates' = r
    /\ StartRun("widget")
    /\ UNCHANGED <<display_mode, date_option, auto_refresh, button, rng>>

ToggleAutoRefresh ==
    /\ Waiting
    /\ auto_refresh' = ~auto_refresh
    /\ StartRun("widget")
    /\ UNCHANGED <<display_mode, date_option, custom_dates, button, rng>>

ScriptStep ==
    \/ Sidebar
    \/ TvDisplay
    \/ Tab1
    \/ Tab2
    \/ AutoRefresh
    \/ SleepReturns
    \/ SleepRerun

UserStep ==
    \/ ClickRefreshNow
    \/ SelectDisplayMode
    \/ SelectDateOption
    \/ SelectCustomDates
    \/ ToggleAutoRefresh

Next == ScriptStep \/ UserStep

Spec == Init /\ [][Next]_vars

\* The script thread is scheduled until the run ends, and a sleep returns.
FairSpec ==
    /\ Spec
    /\ WF_vars(Sidebar)
    /\ WF_vars(TvDisplay)
    /\ WF_vars(Tab1)
    /\ WF_vars(Tab2)
    /\ WF_vars(AutoRefresh)
    /\ WF_vars(SleepReturns)
    /\ WF_vars(SleepRerun)

(***************************************************************************)
(* Claims about the generators and the KPI cards.                          *)
(***************************************************************************)

\* The percentage change the claims expect of a card: 0 at a baseline of 0,
\* (today - yesterday) / yesterday * 100 otherwise.
ExpectedChange(today, yesterday) ==
    IF yesterday = 0 THEN Ratio(0, 1)
    ELSE Ratio((today - yesterday) * 100, yesterday)

C4_DailySum ==
    daily_trends # << >> =>
        \A k \in 1..Len(daily_trends) :
            LET e == daily_trends[k]
                f == locals.d[k].frac
            IN  /\ e.TotalCalls \in 5500..7500
                /\ f \in 68..78
                /\ e.AIResolved * 100 <= e.TotalCalls * f
                /\ e.TotalCalls * f < (e.AIResolved + 1) * 100
                /\ e.AIResolved + e.Escalated = e.TotalCalls

\* C4 witness: a three-day result whose first entry has a total that the
\* fraction does not divide evenly (5501 * 0.68 = 3740.68).
C4_Witness ==
    /\ Len(daily_trends) = 3
    /\ daily_trends[1].TotalCalls = 5501
    /\ daily_trends[1].AIResolved = 3740
    /\ daily_trends[1].Escalated = 1761

\* C5: get_language_distribution returns Telugu in [52,62], Hindi in [22,30]
\* and English = 100 - Telugu - Hindi, so the three shares sum to 100 and
\* English is within [8,26].
C5_LanguageSum ==
    language_dist # << >> =>
        LET t == language_dist[1].Percentage
            h == language_dist[2].Percentage
            e == language_dist[3].Percentage
        IN  /\ Len(language_dist) = 3
            /\ t \in 5200..6200
            /\ h \in 2200..3000
            /\ e = 10000 - t - h
            /\ t + h + e = 10000
            /\ e \in 800..2600

\* C5 witness: the largest Telugu and Hindi shares leave English at 8.
C5_Witness ==
    /\ language_dist # << >>
    /\ language_dist[1].Percentage = 6200
    /\ language_dist[2].Percentage = 3000
    /\ language_dist[3].Percentage = 800

\* C6: in 'today' mode get_hourly_call_volume returns 24 rows labelled
\* 00:00 .. 23:00 in order, and the volume of every hour after the current
\* hour is 0.
C6_FutureHoursZero ==
    (hourly_data # << >> /\ locals.date_range = "today") =>
        /\ Len(hourly_data) = 24
        /\ \A k \in 1..24 :
              /\ 10 * hourly_data[k].Hour[1] + hourly_data[k].Hour[2] = k - 1
              /\ hourly_data[k].Hour[2] \in 0..9
              /\ (k - 1 > hour => hourly_data[k].Calls = 0)

\* C6 witness: at 10 o'clock the row of 10:00 has calls and 11:00 .. 23:00
\* have none.
C6_Witness ==
    /\ hourly_data # << >>
    /\ locals.date_range = "today"
    /\ hour = 10
    /\ hourly_data[11].Calls > 0
    /\ \A k \in 12..24 : hourly_data[k].Calls = 0

\* C7: get_live_metrics uses a multiplier in [1.10,1.30] when the hour is in
\* 9..18 and in [0.50,0.60] otherwise; active_calls = floor(r * multiplier)
\* with r in 80..180; in a peak hour active_calls is 88 at the minimum draws,
\* 234 at the maximum draws and always within 88..234.
C7_LiveMultiplier ==
    live_metrics # None =>
        LET m == locals.multiplier
            r == locals.r
            a == live_metrics.active_calls
        IN  /\ (hour \in 9..18 => m \in 110..130)
            /\ (hour \notin 9..18 => m \in 50..60)
            /\ r \in 80..180
            /\ a * 100 <= r * m
            /\ r * m < (a + 1) * 100
            /\ (hour \in 9..18 =>
                   /\ a \in 88..234
                   /\ (r = 80 /\ m = 110 => a = 88)
                   /\ (r = 180 /\ m = 130 => a = 234))

\* C7 witness: 14:00 with the minimum draws gives 88 active calls.
C7_Witness ==
    /\ live_metrics # None
    /\ hour = 14
    /\ locals.r = 80
    /\ locals.multiplier = 110
    /\ live_metrics.active_calls = 88

\* C8 as stated: the 'yesterday' baselines of get_performance_kpis come from
\* the ranges of today's values: containment_yesterday in [68,78],
\* fcr_yesterday in [65,75], aht_yesterday in [4.5,7.5].
C8_YesterdaySameRanges ==
    kpis # None =>
        /\ kpis.containment_yesterday \in 6800..7800
        /\ kpis.fcr_yesterday \in 6500..7500
        /\ kpis.aht_yesterday \in 450..750

\* C8 amended: the 'yesterday' baselines come from ranges of their own:
\* containment_yesterday in [65,75], fcr_yesterday in [62,72], aht_yesterday
\* in [5.0,8.0].
C8_YesterdayOwnRanges ==
    kpis # None =>
        /\ kpis.containment_yesterday \in 6500..7500
        /\ kpis.fcr_yesterday \in 6200..7200
        /\ kpis.aht_yesterday \in 500..800

\* C8 witness: a snapshot whose three baselines lie outside today's ranges.
C8_Witness ==
    /\ kpis # None
    /\ kpis.containment_yesterday = 6500
    /\ kpis.fcr_yesterday = 6200
    /\ kpis.aht_yesterday = 800

\* C9: in every result of get_performance_kpis avg_handle_time is in
\* [4.5,7.5], containment_rate in [68,78], fcr_rate in [65,75], and the
\* targets are 70 (containment), 70 (FCR) and 8 (AHT).
C9_KpiRanges ==
    kpis # None =>
        /\ kpis.avg_handle_time \in 450..750
        /\ kpis.containment_rate \in 6800..7800
        /\ kpis.fcr_rate \in 6500..7500
        /\ kpis.containment_target = 7000
        /\ kpis.fcr_target = 7000
        /\ kpis.aht_target = 800

\* C9 witness: a snapshot at the upper ends of the three ranges.
C9_Witness ==
    /\ kpis # None
    /\ kpis.avg_handle_time = 750
    /\ kpis.containment_rate = 7800
    /\ kpis.fcr_rate = 7500

\* C10: on the cards of the Performance tab ai_resolved =
\* floor(calls_today * containment_rate / 100), escalated = calls_today -
\* ai_resolved and cost_savings = ai_resolved * 50, so ai_resolved + escalated
\* = calls_today; calls_today = 5000 at a rate of 72 gives 3600 and 180000.
C10_DerivedCards ==
    (cards # None /\ cards.error = "") =>
        LET c == kpis.calls_today
            rate == kpis.containment_rate
            ai == cards.ai_resolved
        IN  /\ ai * 10000 <= c * rate
            /\ c * rate < (ai + 1) * 10000
            /\ cards.escalated = c - ai
            /\ ai + cards.escalated = c
            /\ cards.savings = ai * 50
            /\ (c = 5000 /\ rate = 7200 => ai = 3600 /\ cards.savings = 180000)

\* C10 witness: the cards of a snapshot with 5000 calls at a rate of 72.
C10_Witness ==
    /\ cards # None
    /\ kpis.calls_today = 5000
    /\ kpis.containment_rate = 7200
    /\ cards.ai_resolved = 3600
    /\ cards.escalated = 1400
    /\ cards.savings = 180000

(***************************************************************************)
(* Claims about the refresh loop.                                          *)
(***************************************************************************)

\* A run has rendered: the main block is done and the tail is next.
Rendered == pc = "tail"

\* The generator calls a run with these selectors is expected to make.
ExpectedCalls(mode, option) ==
    IF mode = "TV Display"
    THEN << <<"get_live_metrics", "">>, <<"get_performance_kpis", "">> >>
    ELSE << <<"get_live_metrics", "">>,
            <<"get_language_distribution", "">>,
            <<"get_top_intents", "">>,
            <<"get_hourly_call_volume", "today">>,
            <<"get_performance_kpis", "">>,
            <<"get_daily_trends",
              CASE option = "Today" -> 1
                [] option = "Last 7 Days" -> 7
                [] option = "Custom Range" -> 30>>,
            <<"get_resolution_breakdown", "">> >>
         \o (IF option = "Today"
             THEN << <<"get_hourly_call_volume", "today">> >> ELSE << >>)

\* C2: while auto-refresh is enabled, every completed render is eventually
\* followed by a later run that has invoked the generators again and holds
\* their new values; a rerun made by the auto-refresh tail comes only after
\* the full 30 seconds of sleep, with the widgets as they were.
C2_AutoRefreshLoop ==
    /\ \A r \in 0..(MaxRuns - 1) :
          (Rendered /\ auto_refresh /\ run = r)
              ~> (Rendered /\ run # r /\ invoked # << >> /\ live_metrics # None)
    /\ [][(trigger' = "auto" /\ run' # run)
             => (pc = "rerun" /\ pc' = "sidebar" /\ slept = SleepSeconds
                 /\ widgets' = widgets)]_vars
    /\ [][(Rendered /\ auto_refresh) => (pc' = "sleep" /\ slept' = 0)]_vars

\* C2 witness: the second run in a row that the auto-refresh tail started
\* has rendered.
C2_Witness ==
    /\ Rendered
    /\ auto_refresh
    /\ trigger = "auto"
    /\ run = 2
    /\ invoked = ExpectedCalls("Desktop", "Today")
    /\ live_metrics # None

\* C3: a press of 'Refresh Now' is taken while the script sleeps (auto-refresh
\* on) or has ended (auto-refresh off), without the sleep having to return;
\* the run it starts reruns the script from the start at line 507, with
\* the selectors unchanged and before any generator or sleep; and every run
\* that renders, however it was started, has made the generator calls that
\* its two selectors determine, the same as a run started by the auto tick.
C3_ManualRefresh ==
    /\ [][(button' /\ ~button)
             => (Waiting /\ pc' = "sidebar" /\ trigger' = "manual"
                 /\ widgets' = widgets)]_vars
    /\ [][(pc = "sidebar" /\ button)
             => (pc' = "sidebar" /\ ~button' /\ trigger' = "manual"
                 /\ widgets' = widgets /\ invoked' = << >> /\ slept' = 0
                 /\ run' # run)]_vars
    /\ [](Rendered => invoked = ExpectedCalls(display_mode, date_option))

\* C3 witness: with auto-refresh off, a run started by the button has
\* rendered the seven-day view.
C3_Witness ==
    /\ Rendered
    /\ trigger = "manual"
    /\ ~auto_refresh
    /\ date_option = "Last 7 Days"
    /\ Len(daily_trends) = 7
    /\ invoked = ExpectedCalls("Desktop", "Last 7 Days")

\* C11: get_daily_trends(days) returns exactly `days` entries, one for each of
\* the `days` consecutive calendar days that end today, oldest first and today
\* last, for every days >= 1.  Today is taken as the day the call starts or
\* as the day it returns, whichever suits the result.
C11_ConsecutiveDaysEndingToday ==
    daily_trends # << >> =>
        LET days == locals.days
        IN  /\ Len(daily_trends) = days
            /\ \E today \in {locals.now[1], locals.now[days]} :
                \A k \in 1..days :
                    daily_trends[k].Date = today - (days - k)

\* C11, the same statement for the calls whose readings of the clock all fall
\* on one day: it holds for them, so only a call that is running at midnight
\* departs from it.
C11_SameDayCalls ==
    (daily_trends # << >> /\ locals.now = SameDay(locals.days)) =>
        /\ Len(daily_trends) = locals.days
        /\ \A k \in 1..locals.days :
            daily_trends[k].Date = 0 - (locals.days - k)

\* C11: a two-day call that midnight interrupts returns yesterday's yesterday
\* and the new day, and no entry for the day between them.
C11_MidnightCall ==
    /\ Len(daily_trends) = 2
    /\ locals.now = <<0, 1>>
    /\ daily_trends[1].Date = -1
    /\ daily_trends[2].Date = 1

\* C13: the sequence get_top_intents returns is ranked by call count in
\* descending order: the count of every entry is at least the count of the
\* entry after it.
C13_RankedDescending ==
    top_intents # << >> =>
        \A k \in 1..(Len(top_intents) - 1) :
            top_intents[k].Count >= top_intents[k + 1].Count

\* C13: 'Bill Inquiry' drawn at 800 stands before 'Outage Status' drawn at 900.
C13_OutOfRank ==
    /\ Len(top_intents) = 5
    /\ top_intents[1].Intent = "Bill Inquiry"
    /\ top_intents[1].Count = 800
    /\ top_intents[2].Intent = "Outage Status"
    /\ top_intents[2].Count = 900

\* C15: for every snapshot get_performance_kpis produces, the four
\* denominators of the "Today vs Yesterday" cards are strictly positive:
\* calls_yesterday >= 4000, ai_yesterday >= 2600, esc_yesterday > 0 and
\* savings_yesterday > 0.  So the cards are computed without a division by
\* zero and none of the three `else 0` branches is taken.
C15_DenominatorsPositive ==
    /\ kpis # None => kpis.calls_yesterday >= 4000
    /\ cards # None =>
        /\ cards.error = ""
        /\ cards.ai_yesterday >= 2600
        /\ cards.esc_yesterday > 0
        /\ cards.savings_yesterday > 0

\* C15 witness: the cards of the snapshot with the smallest yesterday, 4000
\* calls at 65.00 %: 2600 AI-resolved, 1400 escalated, 130000 rupees.
C15_Witness ==
    /\ kpis # None
    /\ cards # None
    /\ kpis.calls_yesterday = 4000
    /\ cards.error = ""
    /\ cards.ai_yesterday = 2600
    /\ cards.esc_yesterday = 1400
    /\ cards.savings_yesterday = 130000

(***************************************************************************)
(* Claims about the runs of the script.                                    *)
(***************************************************************************)

\* The names of the generators the current run has invoked.
InvokedNames == {invoked[i][1] : i \in 1..Len(invoked)}

\* The arguments with which the current run has invoked get_daily_trends.
InvokedDays ==
    {invoked[i][2] : i \in {j \in 1..Len(invoked) :
                                invoked[j][1] = "get_daily_trends"}}

\* The three charts that plot the daily trend (780, 790, 803-825).
DailyTrendCharts ==
    {"Call Volume Trend: daily line", "Resolution Breakdown: daily area",
     "Containment Rate Trend"}

\* C14: the generators a run invokes are determined by the two selectors
\* alone.  A rendered TV run has invoked exactly get_live_metrics and
\* get_performance_kpis, whatever the period.  A rendered Desktop run has
\* invoked all seven generators, get_daily_trends with days = 1 for "Today",
\* 7 for "Last 7 Days" and 30 for "Custom Range" whatever the chosen start
\* and end dates, and it shows the daily-trend charts only when the trend
\* has more than one day.
C14_GeneratorsBySelectors ==
    Rendered =>
        /\ invoked = ExpectedCalls(display_mode, date_option)
        /\ display_mode = "TV Display" =>
            /\ InvokedNames = {"get_live_metrics", "get_performance_kpis"}
            /\ Len(invoked) = 2
            /\ daily_trends = << >>
            /\ charts = {}
        /\ display_mode = "Desktop" =>
            /\ InvokedNames = {"get_live_metrics", "get_language_distribution",
                               "get_top_intents", "get_hourly_call_volume",
                               "get_performance_kpis", "get_daily_trends",
                               "get_resolution_breakdown"}
            /\ date_option = "Today" => InvokedDays = {1}
            /\ date_option = "Last 7 Days" => InvokedDays = {7}
            /\ date_option = "Custom Range" => InvokedDays = {30}
            /\ InvokedDays = {Len(daily_trends)}
            /\ (charts \cap DailyTrendCharts # {}) => Len(daily_trends) > 1
            /\ Len(daily_trends) > 1 => charts = DailyTrendCharts

\* C14 witness: a rendered Desktop run with "Custom Range" and a chosen range
\* of two days: thirty days of trend, shown in the three daily charts.
C14_Witness ==
    /\ Rendered
    /\ display_mode = "Desktop"
    /\ date_option = "Custom Range"
    /\ custom_dates = [start |-> 2, end |-> 1]
    /\ Len(daily_trends) = 30
    /\ <<"get_daily_trends", 30>> \in {invoked[i] : i \in 1..Len(invoked)}
    /\ charts = DailyTrendCharts

\* C16: while auto-refresh is disabled, a run ends once it has rendered: it
\* does not sleep and does not rerun itself, and what it rendered stays as it
\* is.  The script then rests, and no generator is invoked again until a
\* user action (Refresh Now or a changed widget) starts a new run.
C16_NoAutoRefreshNoRerun ==
    /\ [][(Rendered /\ ~auto_refresh)
             => (pc' = "idle" /\ slept' = 0 /\ run' = run
                 /\ invoked' = invoked /\ results' = results)]_vars
    /\ [](pc = "idle" => (~auto_refresh /\ slept = 0))
    /\ [][pc = "idle"
             => (/\ pc' = "sidebar"
                 /\ trigger' \in {"manual", "widget"}
                 /\ (button' \/ widgets' # widgets)
                 /\ invoked' = << >>)]_vars

\* C16 witness: with auto-refresh off, a Desktop run has rendered all of its
\* generators' values and has ended without a sleep.
C16_Witness ==
    /\ pc = "idle"
    /\ ~auto_refresh
    /\ slept = 0
    /\ display_mode = "Desktop"
    /\ invoked = ExpectedCalls("Desktop", date_option)
    /\ live_metrics # None
    /\ kpis # None

\* What a run renders when it starts with no values at all, at hour h, with
\* the random source in state s and with the two selectors as given: the
\* values in the order of `results`, and the random source after the run.
FreshRun(h, s, mode, option) ==
    LET live == get_live_metrics(h, LiveDrawsRng(h, s))
        s1 == Advance(s, 7)
    IN  IF mode = "TV Display"
        THEN [values |-> <<live, << >>, << >>, << >>,
                           get_performance_kpis(KpiDrawsRng(s1)), << >>,
                           << >>, None, {}>>,
              rng |-> Advance(s1, 8)]
        ELSE
        LET language == get_language_distribution(LanguageDrawsRng(s1))
            s2 == Advance(s1, 2)
            intents == get_top_intents(IntentDrawsRng(s2))
            s3 == Advance(Advance(s2, 5), 3)
            hourly1 == get_hourly_call_volume("today", h,
                                              HourlyNoiseRng(-30, 50, s3))
            s4 == Advance(s3, h + 1)
            k == get_performance_kpis(KpiDrawsRng(s4))
            s5 == Advance(s4, 8)
            days == CASE option = "Today" -> 1
                      [] option = "Last 7 Days" -> 7
                      [] option = "Custom Range" -> 30
            trend == get_daily_trends(days, TrendDrawsRng(days, s5),
                                      SameDay(days))
            s6 == Advance(s5, 2 * days)
            resolution == get_resolution_breakdown(ResolutionDrawsRng(s6))
            s7 == Advance(s6, 4)
            hourly2 == get_hourly_call_volume("today", h,
                                              HourlyNoiseRng(-30, 50, s7))
        IN  [values |-> <<live, language, intents,
                          IF days = 1 THEN hourly2 ELSE hourly1,
                          k, trend, resolution, KpiCards(k),
                          TrendCharts(trend)>>,
             rng |-> IF days = 1 THEN Advance(s7, h + 1) ELSE s7]

\* The values of a run that has rendered nothing yet.
NoValues == <<None, << >>, << >>, << >>, None, << >>, << >>, None, {}>>

\* C12: the generators keep nothing from one refresh cycle to the next.  A
\* run starts without any value of an earlier run, and what a run has
\* rendered is exactly what a run without any history renders at the same
\* hour, with the same two selectors and the same draws (the draws being
\* those the random source yields from some state s): whatever the runs
\* before it were, and whatever started it.
C12_StatelessAcrossRuns ==
    /\ pc \in {"sidebar", "main"} => results = NoValues
    /\ Rendered =>
        \E s \in 0..Coarse :
            /\ results = FreshRun(hour, s, display_mode, date_option).values
            /\ rng = FreshRun(hour, s, display_mode, date_option).rng

\* C12 witness: a TV run has rendered after the Desktop run of the first page
\* load; it holds the two snapshots of the TV block and nothing of the
\* Desktop run's language, intent, hourly, trend or resolution values.
C12_Witness ==
    /\ Rendered
    /\ display_mode = "TV Display"
    /\ trigger = "widget"
    /\ run > 0
    /\ live_metrics # None
    /\ kpis # None
    /\ language_dist = << >>
    /\ daily_trends = << >>

=============================================================================
